---- MODULE Spec2Model ----
(***************************************************************************)
(* Hibernation / wake control logic of the on-demand backend: the shutdown *)
(* handlers (idle alarm) and the startup handlers (placeholder request),   *)
(* run against the ECS, RDS and ELBv2 control planes.                      *)
(*                                                                         *)
(* Handler variants found in the repository:                               *)
(*   sd_part001  shutdown: swap, scale to 0, drain wait, stop database     *)
(*   sd_lambda   shutdown: scale to 0, stop database, swap                 *)
(*   sd_part002  shutdown: as sd_lambda, with "cleaned" rule conditions    *)
(*   su_lambda   startup: scale to 1, start database, SetRulePriorities,   *)
(*               readiness wait, replay with retry                         *)
(*   su_part003  startup: scale to 1, start database, two ModifyRule       *)
(*               calls, replay with retry                                  *)
(*   su_legacy   startup: scale to 1, start database, two ModifyRule       *)
(*               calls, wait for ECS and RDS, forward once                 *)
(*                                                                         *)
(* Every control-plane call either succeeds or throws; which one is the    *)
(* environment's choice.                                                   *)
(***************************************************************************)
EXTENDS Integers, Sequences, FiniteSets, TLC

VARIABLES
  rules,     \* the listener's rules, in the order DescribeRules returns them
  prio,      \* priority of each rule of the listener
  desired,   \* ECS service desiredCount
  running,   \* ECS service runningCount
  pending,   \* ECS service pendingCount
  dbState,   \* RDS DBInstanceStatus
  run,       \* the handler invocations: position, locals and what they did
  faults,    \* whether control-plane calls may throw or come back empty
  initial    \* the control planes' state before the first invocation

vars == <<rules, prio, desired, running, pending, dbState, run, faults, initial>>

----------------------------------------------------------------------------
(* Bounds of the model *)

\* replay attempts explored of the uncapped while(true) retry loop
MaxAttempts == 3

\* initial rule priorities are drawn from 1..MaxPrio
MaxPrio == 3

\* Most headers a captured request carries
MaxHeaders == 3

\* Most tasks of the service that run, and that are pending, before a run
MaxTasks == 2

(* Program constants *)

\* waitForEcsTasksToDrain: const maxAttempts = 60
DrainMaxAttempts == 60

\* waitForEcsServiceReady / waitForInfrastructureReady: const maxAttempts = 30
ReadyMaxAttempts == 30

\* statusCode of the handler's catch-all response
StartingUpStatus == 503

\* 'Retry-After': '30'
RetryAfterSeconds == "30"

\* statusCode of forwardRequestToEcs's catch response
BadGatewayStatus == 502

\* Priority given to the rule that shall receive the traffic
TopPriority == 1

\* Priority given to the other rule of the pair
SecondPriority == 2

----------------------------------------------------------------------------
(* Handler variants and their step sequences *)

ShutdownVariants == {"sd_part001", "sd_lambda", "sd_part002"}
StartupVariants  == {"su_lambda", "su_part003", "su_legacy"}
RetryVariants    == {"su_lambda", "su_part003"}
Variants         == ShutdownVariants \cup StartupVariants

ProgramWithoutWaits(v) ==
  CASE v = "sd_part001" -> <<"swap", "scale", "drain", "db">>
    [] v = "sd_lambda"  -> <<"scale", "db", "swap">>
    [] v = "sd_part002" -> <<"scale", "db", "swap">>
    [] v = "su_lambda"  -> <<"scale", "db", "swap", "replay">>
    [] v = "su_part003" -> <<"scale", "db", "swap", "replay">>
    [] v = "su_legacy"  -> <<"scale", "db", "swap", "forward">>

\* The order of the awaited steps in each handler's try block.
Program(v) ==
  CASE v = "sd_part001" -> <<"swap", "scale", "drain", "db">>
    [] v = "sd_lambda"  -> <<"scale", "db", "swap">>
    [] v = "sd_part002" -> <<"scale", "db", "swap">>
    [] v = "su_lambda"  -> <<"scale", "db", "swap", "ready", "replay">>
    [] v = "su_part003" -> <<"scale", "db", "swap", "replay">>
    [] v = "su_legacy"  -> <<"scale", "db", "swap", "readyEcs", "readyRds", "forward">>

\* The step that follows step s in variant v ("end": the try block is through).
After(v, s) ==
  LET p == Program(v)
      i == CHOOSE k \in 1..Len(p) : p[k] = s
  IN  IF i = Len(p) THEN "end" ELSE p[i + 1]

ScaleTargetTwoOnStartup(v) == IF v \in ShutdownVariants THEN 0 ELSE 2

ScaleTargetAlwaysZero(v) == 0

\* desiredCount written by the handler's UpdateServiceCommand
ScaleTarget(v) == IF v \in ShutdownVariants THEN 0 ELSE 1

DbExpectedAlwaysAvailable(v) == "available"

DbExpectedAlwaysStopped(v) == "stopped"

\* DBInstanceStatus the handler requires before it issues Stop / Start
DbExpected(v) == IF v \in ShutdownVariants THEN "available" ELSE "stopped"

\* DBInstanceStatus right after an accepted Stop / Start
DbAfterWrite(v) == IF v \in ShutdownVariants THEN "stopping" ELSE "starting"

----------------------------------------------------------------------------
(* Rule discovery *)

\* rules.Rules.find(rule => Actions[0].Type === "forward" && TargetGroupArn
\*                          && TargetGroupArn.includes("Lambd"))
IsLambdaRuleByTarget(rule) == rule.type = "forward" /\ rule.tg /\ rule.lambd

\* ... && !TargetGroupArn.includes("Lambd")
IsEcsRuleByTarget(rule) == rule.type = "forward" /\ rule.tg /\ ~rule.lambd

\* rules.Rules.find(rule => Actions[0].Type === "lambda")
IsLambdaRuleByType(rule) == rule.type = "lambda"

\* rules.Rules.find(rule => Actions[0].Type === "forward")
IsEcsRuleByType(rule) == rule.type = "forward"

ByTargetVariants == {"sd_lambda", "sd_part002", "su_lambda", "su_part003"}

\* Array.prototype.find: the first element that satisfies the predicate;
\* idx holds the positions of the elements that satisfy it
FindFirst(rs, idx) ==
  IF idx = {} THEN "none" ELSE rs[CHOOSE i \in idx : \A j \in idx : i <= j].arn

FindLambdaRule(v, rs) ==
  FindFirst(rs, {i \in 1..Len(rs) : IF v \in ByTargetVariants
                                    THEN IsLambdaRuleByTarget(rs[i])
                                    ELSE IsLambdaRuleByType(rs[i])})

FindEcsRule(v, rs) ==
  FindFirst(rs, {i \in 1..Len(rs) : IF v \in ByTargetVariants
                                    THEN IsEcsRuleByTarget(rs[i])
                                    ELSE IsEcsRuleByType(rs[i])})

BothFoundEither(l, e) == l # "none" \/ e # "none"

\* if (lambdaRule && ecsRule)
BothFound(l, e) == l # "none" /\ e # "none"

FirstTargetDefaultRule(v, l, e) == "rDefault"

FirstTargetAlwaysEcs(v, l, e) == e

\* The rule that gets priority 1: the Lambda rule on shutdown, the ECS rule on startup
FirstTarget(v, l, e) == IF v \in ShutdownVariants THEN l ELSE e

SecondTargetSameAsFirst(v, l, e) == FirstTarget(v, l, e)

\* The rule that gets priority 2
SecondTarget(v, l, e) == IF v \in ShutdownVariants THEN e ELSE l

FirstUpdateSecondPriority(v, l, e) ==
  [arn |-> FirstTarget(v, l, e), priority |-> SecondPriority]

FirstUpdateExchanging(v, l, e) ==
  [arn |-> FirstTarget(v, l, e), priority |-> prio[SecondTarget(v, l, e)]]

\* new ModifyRuleCommand({ RuleArn, Priority: 1 }): the first update of the swap
FirstUpdate(v, l, e) == [arn |-> FirstTarget(v, l, e), priority |-> TopPriority]

SecondUpdateOneBelow(v, l, e) ==
  [arn |-> SecondTarget(v, l, e), priority |-> prio[SecondTarget(v, l, e)] + 1]

\* new ModifyRuleCommand({ RuleArn, Priority: 2 }): the second update
SecondUpdate(v, l, e) == [arn |-> SecondTarget(v, l, e), priority |-> SecondPriority]

\* su_lambda sets both priorities in one SetRulePriorities call
AtomicSwap(v) == v = "su_lambda"

----------------------------------------------------------------------------
(* The control planes *)

\* A condition as DescribeRules returns it: the values both in Values and in
\* the field's own config (HostHeaderConfig, PathPatternConfig)
Described(c) == [Field |-> c.field, Values |-> c.values, Config |-> c.values]

\* A condition as the listener keeps it after ModifyRule received it
Stored(c) ==
  [field |-> c.Field, values |-> IF c.Config # "" THEN c.Config ELSE c.Values]

CleanConditionDroppingConfig(c) ==
  IF c.Field = "host-header" THEN [c EXCEPT !.Values = "", !.Config = ""] ELSE c

\* part_002: { Field: condition.Field, HostHeaderConfig: condition.HostHeaderConfig }
\* for a host-header condition, the condition itself otherwise
CleanCondition(c) ==
  IF c.Field = "host-header" THEN [c EXCEPT !.Values = ""] ELSE c

\* The handlers that pass Conditions and Actions to ModifyRule
RewritingVariants == {"sd_lambda", "sd_part002"}

\* Conditions: of the ModifyRuleCommand, from the rule as DescribeRules gave it
ConditionsSent(v, rule) ==
  LET described == [i \in DOMAIN rule.conditions |-> Described(rule.conditions[i])]
  IN  IF v = "sd_part002"
      THEN [i \in DOMAIN described |-> CleanCondition(described[i])]
      ELSE described

\* ModifyRuleCommand({RuleArn, Priority, Conditions, Actions}): the rule's
\* conditions become those sent; Actions: rule.Actions sends back the actions
\* it has. Without Conditions and Actions the rule keeps both.
ApplyModifyRuleBody(rs, v, arn) ==
  [i \in DOMAIN rs |->
     IF rs[i].arn = arn /\ v \in RewritingVariants
     THEN [rs[i] EXCEPT !.conditions =
             [k \in DOMAIN ConditionsSent(v, rs[i]) |-> Stored(ConditionsSent(v, rs[i])[k])]]
     ELSE rs[i]]

\* ModifyRuleCommand({RuleArn, Priority}) as the handlers expect it to act
ApplyModifyRule(p, arn, n) == [p EXCEPT ![arn] = n]

ApplySetRulePrioritiesReversed(p, e, l) ==
  [p EXCEPT ![e] = SecondPriority, ![l] = TopPriority]

\* SetRulePrioritiesCommand({RulePriorities: [{ecs, 1}, {lambda, 2}]})
ApplySetRulePriorities(p, e, l) ==
  [p EXCEPT ![e] = TopPriority, ![l] = SecondPriority]

DbStates == {"available", "stopping", "stopped", "starting", "other"}

\* What DescribeServicesCommand returns: the service entry, or no entry at all
ServiceEntry == [present |-> TRUE, status |-> "ACTIVE", desiredCount |-> desired,
                 runningCount |-> running, pendingCount |-> pending]
NoServiceEntry == [present |-> FALSE, status |-> "", desiredCount |-> 0,
                   runningCount |-> 0, pendingCount |-> 0]

\* DescribeServicesCommand comes back with the service, or with services: []
DescribeServicesResults == IF faults THEN {ServiceEntry, NoServiceEntry} ELSE {ServiceEntry}

\* DescribeDBInstancesCommand comes back with the instance, or with none ('' status)
DescribeDbResults == IF faults THEN {dbState, ""} ELSE {dbState}

\* waitForEcsTasksToDrain:
\*   runningCount = services && services[0] ? services[0].runningCount : 0   (same for desired)
\*   if (runningCount === 0 && desiredCount === 0) break
DrainedObservation(svc) ==
  LET runningCount == IF svc.present THEN svc.runningCount ELSE 0
      desiredCount == IF svc.present THEN svc.desiredCount ELSE 0
  IN  runningCount = 0 /\ desiredCount = 0

ReadyObservationIgnoringPending(svc) ==
  svc.present /\ svc.status = "ACTIVE" /\ svc.runningCount >= 1

\* waitForEcsServiceReady (su_lambda):
\*   service.status === 'ACTIVE' && service.runningCount >= 1 && service.pendingCount === 0
\* (services[0] undefined makes service.status throw, which the loop catches)
ReadyObservation(svc) ==
  svc.present /\ svc.status = "ACTIVE" /\ svc.runningCount >= 1 /\ svc.pendingCount = 0

\* waitForInfrastructureReady (su_legacy):
\*   serviceStatus === 'ACTIVE' && runningCount === desiredCount && desiredCount === 1
InfraReadyObservation(svc) ==
  LET serviceStatus == IF svc.present THEN svc.status ELSE ""
      runningCount  == IF svc.present THEN svc.runningCount ELSE 0
      desiredCount  == IF svc.present THEN svc.desiredCount ELSE 0
  IN  serviceStatus = "ACTIVE" /\ runningCount = desiredCount /\ desiredCount = 1

\* waitForInfrastructureReady: dbStatus === 'available'
DbReadyObservation(dbStatus) == dbStatus = "available"

DrainBudgetLeftOneMore(attempts) == attempts <= DrainMaxAttempts

\* while (attempts < maxAttempts) of the drain loop
DrainBudgetLeft(attempts) == attempts < DrainMaxAttempts

\* while (attempts < maxAttempts) of the readiness loops
ReadyBudgetLeft(attempts) == attempts < ReadyMaxAttempts

----------------------------------------------------------------------------
(* Headers: a map from header names to values *)

NoHeaders == [h \in {} |-> ""]

\* The map hs without the names outside keep
Restrict(hs, keep) == [k \in DOMAIN hs \cap keep |-> hs[k]]

\* key.toLowerCase(), on the header names that occur
LowerCase ==
  ("Host" :> "host") @@ ("X-Amz-Cf-Id" :> "x-amz-cf-id") @@ ("Accept" :> "accept")

ToLowerCase(key) == IF key \in DOMAIN LowerCase THEN LowerCase[key] ELSE key

\* The lower-case names that occur and begin with "x-amz-"
\* ("x-amzn-trace-id" does not: its sixth character is "n")
AmzPrefixed == {"x-amz-cf-id", "x-amz-date"}

\* key.toLowerCase().startsWith('x-amz-')
StartsWithXAmz(key) == ToLowerCase(key) \in AmzPrefixed

----------------------------------------------------------------------------
(* The captured request and the request built from it *)

\* The ALB event: httpMethod ("" when absent), headers, body ("" when absent)
Event(m, hs, b) == [httpMethod |-> m, headers |-> hs, body |-> b]

DefaultEvent == Event("GET", ("host" :> "placeholder") @@ ("accept" :> "text/html"), "")

NoRequest == [method |-> "", headers |-> NoHeaders, body |-> ""]

\* if (value && !key.toLowerCase().startsWith('x-amz-') && key.toLowerCase() !== 'host')
\*   headers[key] = value
BuildHeaders(hs) ==
  Restrict(hs, {k \in DOMAIN hs :
                  hs[k] # "" /\ ~StartsWithXAmz(k) /\ ToLowerCase(k) # "host"})

\* fetch(targetUrl, { method: event.httpMethod || 'GET', headers, body: body || undefined })
BuildRequest(ev) ==
  [method  |-> IF ev.httpMethod = "" THEN "GET" ELSE ev.httpMethod,
   headers |-> BuildHeaders(ev.headers),
   body    |-> ev.body]

----------------------------------------------------------------------------
(* The backend, as seen by one replay attempt *)

Statuses == {200, 404, 503}

\* A response of the backend: fetch presents its header names in lower case
HttpResponse(s, hs, b) == [kind |-> "http", status |-> s, headers |-> hs, body |-> b]

HtmlHeaders == ("content-type" :> "text/html")

HttpOutcome(s) == HttpResponse(s, HtmlHeaders, "text")
NetworkError   == [kind |-> "neterr", status |-> 0, headers |-> NoHeaders, body |-> ""]
OtherError     == [kind |-> "err", status |-> 0, headers |-> NoHeaders, body |-> ""]
Outcomes       == {HttpOutcome(s) : s \in Statuses} \cup {NetworkError, OtherError}

IsSuccessStatusBelow500(s) == s >= 200 /\ s < 500

\* if (response.status >= 200 && response.status < 300)
IsSuccessStatus(s) == s >= 200 /\ s < 300

IsSuccess(o) == o.kind = "http" /\ IsSuccessStatus(o.status)

JsonHeaders == ("Content-Type" :> "application/json")

\* What the handler returns
NoResponse == [statusCode |-> 0, headers |-> NoHeaders, body |-> "", att |-> 0]

ResponseHeadersVerbatim(hs) == hs

\* { 'Content-Type': response.headers.get('content-type') || 'application/json',
\*   ...Object.fromEntries(response.headers.entries()) }
ResponseHeaders(hs) ==
  ("Content-Type" :> (IF "content-type" \in DOMAIN hs /\ hs["content-type"] # ""
                      THEN hs["content-type"] ELSE "application/json")) @@ hs

\* await response.text(): the body decoded as UTF-8, bytes that are not valid
\* UTF-8 replaced
ResponseText(b) == IF b = "bytes" THEN "replaced" ELSE b

\* { statusCode: response.status, headers: {...}, body: responseBody }
BackendResponse(o, n) ==
  [statusCode |-> o.status, headers |-> ResponseHeaders(o.headers),
   body |-> ResponseText(o.body), att |-> n]

StartingUpResponseWithoutRetryAfter ==
  [statusCode |-> StartingUpStatus, headers |-> JsonHeaders,
   body |-> "{message,error}", att |-> 0]

\* the handler's catch: 503, Retry-After: 30, JSON { message, error }
StartingUpResponse ==
  [statusCode |-> StartingUpStatus,
   headers |-> JsonHeaders @@ ("Retry-After" :> RetryAfterSeconds),
   body |-> "{message,error}", att |-> 0]

\* forwardRequestToEcs's catch: 502, JSON { message, error }
BadGatewayResponse ==
  [statusCode |-> BadGatewayStatus, headers |-> JsonHeaders,
   body |-> "{message,error}", att |-> 0]

RetryDecisionNeverReturns(o) == "retry"

RetryDecisionOnlyStatusRetried(o) ==
  IF o.kind = "http" /\ ~IsSuccessStatus(o.status) THEN "retry" ELSE "return"

RetryDecisionAbove200(o) ==
  IF o.kind = "http" /\ o.status > 200 /\ o.status < 300 THEN "return" ELSE "retry"

\* forwardRequestToEcsWithRetry: what one attempt's outcome leads to.
\* 2xx returns; every other status and every exception sleeps and retries.
RetryDecision(o) == IF IsSuccess(o) THEN "return" ELSE "retry"

ForwardResultRethrowing(o) ==
  IF o.kind = "http" THEN BackendResponse(o, 1) ELSE StartingUpResponse

ForwardResultOnlySuccess(o) ==
  IF IsSuccess(o) THEN BackendResponse(o, 1) ELSE BadGatewayResponse

\* forwardRequestToEcs (su_legacy): one attempt, whatever status comes back is
\* returned, every exception gives the 502 response.
ForwardResult(o) == IF o.kind = "http" THEN BackendResponse(o, 1) ELSE BadGatewayResponse

----------------------------------------------------------------------------
(* Handler invocations *)

Runs == DOMAIN run

Snapshot ==
  [rules |-> rules, prio |-> prio, desired |-> desired, running |-> running,
   pending |-> pending, dbState |-> dbState]

LogEntry(c, ok, at) == [call |-> c, ok |-> ok, at |-> at]

NewRun(v) ==
  [variant |-> v, pc |-> Program(v)[1], outcome |-> "active",
   lrule |-> "none", erule |-> "none",
   event |-> DefaultEvent, backend |-> Outcomes, sent |-> NoRequest,
   attempts |-> 0, hist |-> <<>>, resp |-> NoResponse, obs |-> NoServiceEntry,
   prioAtReplay |-> <<>>, swapped |-> FALSE, prioAfterSwap |-> <<>>,
   start |-> Snapshot, log |-> <<>>]

\* An invocation that has not been triggered yet
Waiting(v) == [NewRun(v) EXCEPT !.pc = "idle", !.outcome = "none"]

Logged(rec, c, ok, at) == [rec EXCEPT !.log = Append(@, LogEntry(c, ok, at))]

\* Step s is through without an exception reaching the handler's try block.
Advance(rec, s) ==
  LET n == After(rec.variant, s)
  IN  IF n = "end"
      THEN [rec EXCEPT !.pc = "done", !.attempts = 0,
                       !.outcome = IF rec.variant \in ShutdownVariants
                                   THEN "ok" ELSE "returned"]
      ELSE [rec EXCEPT !.pc = n, !.attempts = 0]

SwapReturnRethrowing(rec, p) ==
  IF rec.log[Len(rec.log)].ok
  THEN [Advance(rec, "swap") EXCEPT !.swapped = TRUE, !.prioAfterSwap = p]
  ELSE [rec EXCEPT !.pc = "done", !.attempts = 0, !.outcome = "raised"]

\* swapListenerRulePriorities returns (it never throws); p: the priorities then
SwapReturn(rec, p) == [Advance(rec, "swap") EXCEPT !.swapped = TRUE, !.prioAfterSwap = p]

AbortRaisingAlways(rec) == [rec EXCEPT !.pc = "done", !.attempts = 0, !.outcome = "raised"]

AbortWithoutRethrow(rec) ==
  IF rec.variant \in ShutdownVariants
  THEN [rec EXCEPT !.pc = "done", !.attempts = 0, !.outcome = "ok"]
  ELSE [rec EXCEPT !.pc = "done", !.attempts = 0, !.outcome = "returned",
                   !.resp = StartingUpResponse]

\* An exception reaches the handler's catch: shutdown rethrows, startup answers 503.
Abort(rec) ==
  IF rec.variant \in ShutdownVariants
  THEN [rec EXCEPT !.pc = "done", !.attempts = 0, !.outcome = "raised"]
  ELSE [rec EXCEPT !.pc = "done", !.attempts = 0, !.outcome = "returned",
                   !.resp = StartingUpResponse]

At(r, s) == run[r].outcome = "active" /\ run[r].pc = s

----------------------------------------------------------------------------
(* swapListenerRulePriorities: every exception is caught and logged inside *)

\* DescribeRulesCommand, then the two find() calls and the if
SwapDescribe(r) ==
  /\ At(r, "swap")
  /\ LET rec == run[r]
         l == FindLambdaRule(rec.variant, rules)
         e == FindEcsRule(rec.variant, rules)
     IN  \/ run' = [run EXCEPT ![r] =
                      IF BothFound(l, e)
                      THEN [Logged(rec, "DescribeRules", TRUE, "") EXCEPT
                              !.lrule = l, !.erule = e,
                              !.pc = IF AtomicSwap(rec.variant) THEN "swapSet" ELSE "swap1"]
                      ELSE SwapReturn([Logged(rec, "DescribeRules", TRUE, "") EXCEPT
                                         !.lrule = l, !.erule = e], prio)]
         \/ /\ faults
            /\ run' = [run EXCEPT ![r] = SwapReturn(Logged(rec, "DescribeRules", FALSE, ""), prio)]
  /\ UNCHANGED <<rules, prio, desired, running, pending, dbState, faults, initial>>

\* first ModifyRuleCommand: Priority 1 for the rule that shall receive the traffic
SwapModifyFirst(r) ==
  /\ At(r, "swap1")
  /\ LET rec == run[r]
         upd == FirstUpdate(rec.variant, rec.lrule, rec.erule)
     IN  \/ /\ prio' = ApplyModifyRule(prio, upd.arn, upd.priority)
            /\ rules' = ApplyModifyRuleBody(rules, rec.variant, upd.arn)
            /\ run' = [run EXCEPT ![r] = [Logged(rec, "ModifyRule1", TRUE, "") EXCEPT !.pc = "swap2"]]
         \/ /\ faults
            /\ run' = [run EXCEPT ![r] = SwapReturn(Logged(rec, "ModifyRule1", FALSE, ""), prio)]
            /\ UNCHANGED <<prio, rules>>
  /\ UNCHANGED <<desired, running, pending, dbState, faults, initial>>

\* second ModifyRuleCommand: Priority 2 for the other rule
SwapModifySecond(r) ==
  /\ At(r, "swap2")
  /\ LET rec == run[r]
         upd == SecondUpdate(rec.variant, rec.lrule, rec.erule)
         nxt(rc) == IF rec.variant = "sd_part002"
                    THEN [rc EXCEPT !.pc = "swapVerify"]
                    ELSE SwapReturn(rc, ApplyModifyRule(prio, upd.arn, upd.priority))
     IN  \/ /\ prio' = ApplyModifyRule(prio, upd.arn, upd.priority)
            /\ rules' = ApplyModifyRuleBody(rules, rec.variant, upd.arn)
            /\ run' = [run EXCEPT ![r] = nxt(Logged(rec, "ModifyRule2", TRUE, ""))]
         \/ /\ faults
            /\ run' = [run EXCEPT ![r] = SwapReturn(Logged(rec, "ModifyRule2", FALSE, ""), prio)]
            /\ UNCHANGED <<prio, rules>>
  /\ UNCHANGED <<desired, running, pending, dbState, faults, initial>>

\* su_lambda: one SetRulePrioritiesCommand for both rules
SwapSetPriorities(r) ==
  /\ At(r, "swapSet")
  /\ LET rec == run[r]
     IN  \/ /\ prio' = ApplySetRulePriorities(prio, rec.erule, rec.lrule)
            /\ run' = [run EXCEPT ![r] =
                         [Logged(rec, "SetRulePriorities", TRUE, "") EXCEPT !.pc = "swapVerify"]]
         \/ /\ faults
            /\ run' = [run EXCEPT ![r] = SwapReturn(Logged(rec, "SetRulePriorities", FALSE, ""), prio)]
            /\ UNCHANGED prio
  /\ UNCHANGED <<rules, desired, running, pending, dbState, faults, initial>>

\* the "Verifying rule priorities..." DescribeRulesCommand: it only logs
SwapVerify(r) ==
  /\ At(r, "swapVerify")
  /\ run' = [run EXCEPT ![r] = SwapReturn(run[r], prio)]
  /\ UNCHANGED <<rules, prio, desired, running, pending, dbState, faults, initial>>

----------------------------------------------------------------------------
(* UpdateServiceCommand({desiredCount}): awaited in the handler's try block *)

ScaleFailureSwallowed(rec) == Advance(rec, "scale")

\* catch (error) { console.error(...); throw error } / return the 503 response
ScaleFailure(rec) == Abort(rec)

Scale(r) ==
  /\ At(r, "scale")
  /\ LET rec == run[r]
     IN  \/ /\ desired' = ScaleTarget(rec.variant)
            /\ run' = [run EXCEPT ![r] = Advance(Logged(rec, "UpdateService", TRUE, ""), "scale")]
         \/ /\ faults
            /\ run' = [run EXCEPT ![r] = ScaleFailure(Logged(rec, "UpdateService", FALSE, ""))]
            /\ UNCHANGED desired
  /\ UNCHANGED <<rules, prio, running, pending, dbState, faults, initial>>

----------------------------------------------------------------------------
(* The database step: its own try / catch inside the handler *)

DbFailureRethrows(rec) == Abort(rec)

\* catch (error) { console.log("Could not stop / start RDS instance:", error) }
DbFailure(rec) == Advance(rec, "db")

\* DescribeDBInstancesCommand and the status test
DbDescribe(r) ==
  /\ At(r, "db")
  /\ LET rec == run[r]
     IN  \/ run' = [run EXCEPT ![r] =
                      IF dbState = DbExpected(rec.variant)
                      THEN [Logged(rec, "DescribeDB", TRUE, dbState) EXCEPT !.pc = "dbWrite"]
                      ELSE Advance(Logged(rec, "DescribeDB", TRUE, dbState), "db")]
         \* DBInstances missing or empty: the else branch
         \/ /\ faults
            /\ run' = [run EXCEPT ![r] =
                         Advance(Logged(rec, "DescribeDB", TRUE, "missing"), "db")]
         \/ /\ faults
            /\ run' = [run EXCEPT ![r] = DbFailure(Logged(rec, "DescribeDB", FALSE, ""))]
  /\ UNCHANGED <<rules, prio, desired, running, pending, dbState, faults, initial>>

\* StopDBInstanceCommand / StartDBInstanceCommand. RDS accepts the call only in
\* the state it requires; a refused or failed call throws into the step's catch.
DbWrite(r) ==
  /\ At(r, "dbWrite")
  /\ LET rec == run[r]
     IN  \/ /\ dbState = DbExpected(rec.variant)
            /\ dbState' = DbAfterWrite(rec.variant)
            /\ run' = [run EXCEPT ![r] = Advance(Logged(rec, "DbWrite", TRUE, dbState), "db")]
         \/ /\ faults \/ dbState # DbExpected(rec.variant)
            /\ run' = [run EXCEPT ![r] = DbFailure(Logged(rec, "DbWrite", FALSE, dbState))]
            /\ UNCHANGED dbState
  /\ UNCHANGED <<rules, prio, desired, running, pending, faults, initial>>

----------------------------------------------------------------------------
(* The wait loops: one action is one iteration (describe, test, sleep) *)

\* "All ECS tasks have been drained": break
DrainBreak(rec) == Advance(Logged(rec, "drain", TRUE, ""), "drain")

DrainTimeoutThrows(rec) == Abort(Logged(rec, "drain", FALSE, ""))

\* if (attempts >= maxAttempts) console.warn("... proceeding anyway")
DrainTimeout(rec) == Advance(Logged(rec, "drain", FALSE, ""), "drain")

\* waitForEcsTasksToDrain: break when drained, else attempts++; never throws
Drain(r) ==
  /\ At(r, "drain")
  /\ DrainBudgetLeft(run[r].attempts)
  /\ LET rec == run[r]
         again == [rec EXCEPT !.attempts = @ + 1]
         miss == IF DrainBudgetLeft(rec.attempts + 1) THEN again ELSE DrainTimeout(rec)
     IN  \/ \E svc \in DescribeServicesResults :
              run' = [run EXCEPT ![r] = IF DrainedObservation(svc) THEN DrainBreak(rec) ELSE miss]
         \/ /\ faults
            /\ run' = [run EXCEPT ![r] = miss]
  /\ UNCHANGED <<rules, prio, desired, running, pending, dbState, faults, initial>>

ReadyTimeoutProceeds(rec) == Advance(Logged(rec, "ready", FALSE, ""), rec.pc)

\* throw new Error("ECS service did not become ready in time")
ReadyTimeout(rec) == Abort(Logged(rec, "ready", FALSE, ""))

\* waitForEcsServiceReady (su_lambda): attempts++ first; returns true when ready;
\* throws after the loop
Ready(r) ==
  /\ At(r, "ready")
  /\ ReadyBudgetLeft(run[r].attempts)
  /\ LET rec == run[r]
         again == [rec EXCEPT !.attempts = @ + 1]
         miss == IF ReadyBudgetLeft(rec.attempts + 1)
                 THEN again
                 ELSE ReadyTimeout(rec)
     IN  \/ \E svc \in DescribeServicesResults :
              run' = [run EXCEPT ![r] =
                        IF ReadyObservation(svc)
                        THEN Advance([Logged(rec, "ready", TRUE, "") EXCEPT !.obs = svc],
                                     "ready")
                        ELSE miss]
         \/ /\ faults
            /\ run' = [run EXCEPT ![r] = miss]
  /\ UNCHANGED <<rules, prio, desired, running, pending, dbState, faults, initial>>

\* waitForInfrastructureReady, first loop (su_legacy)
ReadyEcs(r) ==
  /\ At(r, "readyEcs")
  /\ ReadyBudgetLeft(run[r].attempts)
  /\ LET rec == run[r]
         again == [rec EXCEPT !.attempts = @ + 1]
         miss == IF ReadyBudgetLeft(rec.attempts + 1)
                 THEN again
                 ELSE ReadyTimeout(rec)
     IN  \/ \E svc \in DescribeServicesResults :
              run' = [run EXCEPT ![r] =
                        IF InfraReadyObservation(svc)
                        THEN Advance([Logged(rec, "ready", TRUE, "") EXCEPT !.obs = svc],
                                     "readyEcs")
                        ELSE miss]
         \/ /\ faults
            /\ run' = [run EXCEPT ![r] = miss]
  /\ UNCHANGED <<rules, prio, desired, running, pending, dbState, faults, initial>>

\* waitForInfrastructureReady, second loop (su_legacy)
ReadyRds(r) ==
  /\ At(r, "readyRds")
  /\ ReadyBudgetLeft(run[r].attempts)
  /\ LET rec == run[r]
         again == [rec EXCEPT !.attempts = @ + 1]
         miss == IF ReadyBudgetLeft(rec.attempts + 1)
                 THEN again
                 ELSE Abort(Logged(rec, "readyRds", FALSE, dbState))
     IN  \/ \E dbStatus \in DescribeDbResults :
              run' = [run EXCEPT ![r] =
                        IF DbReadyObservation(dbStatus)
                        THEN Advance(Logged(rec, "readyRds", TRUE, dbState), "readyRds")
                        ELSE miss]
         \/ /\ faults
            /\ run' = [run EXCEPT ![r] = miss]
  /\ UNCHANGED <<rules, prio, desired, running, pending, dbState, faults, initial>>

----------------------------------------------------------------------------
(* Replaying the captured request *)

\* forwardRequestToEcsWithRetry: one iteration of while (true)
Replay(r) ==
  /\ At(r, "replay")
  /\ run[r].attempts < MaxAttempts
  /\ \E o \in run[r].backend :
       LET rec == run[r]
           n == rec.attempts + 1
           tried == [rec EXCEPT !.attempts = n, !.hist = Append(@, o),
                                !.sent = BuildRequest(rec.event),
                                !.prioAtReplay = IF n = 1 THEN prio ELSE @]
       IN  run' = [run EXCEPT ![r] =
                     IF RetryDecision(o) = "return"
                     THEN [tried EXCEPT !.pc = "done", !.outcome = "returned",
                                        !.resp = BackendResponse(o, n)]
                     ELSE tried]
  /\ UNCHANGED <<rules, prio, desired, running, pending, dbState, faults, initial>>

\* forwardRequestToEcs (su_legacy): a single fetch
Forward(r) ==
  /\ At(r, "forward")
  /\ \E o \in run[r].backend :
       run' = [run EXCEPT ![r] =
                 [run[r] EXCEPT !.attempts = 1, !.hist = <<o>>, !.prioAtReplay = prio,
                                !.sent = BuildRequest(run[r].event),
                                !.pc = "done", !.outcome = "returned",
                                !.resp = ForwardResult(o)]]
  /\ UNCHANGED <<rules, prio, desired, running, pending, dbState, faults, initial>>

----------------------------------------------------------------------------
(* The control planes converging on their own *)

\* ECS places a task for a service below its desired count
EcsSchedule ==
  /\ running + pending < desired
  /\ pending' = pending + 1
  /\ UNCHANGED <<rules, prio, desired, running, dbState, run, faults, initial>>

\* a pending task starts running, or is dropped when no longer desired
EcsStart ==
  /\ pending > 0
  /\ pending' = pending - 1
  /\ running' = IF running < desired THEN running + 1 ELSE running
  /\ UNCHANGED <<rules, prio, desired, dbState, run, faults, initial>>

\* a running task above the desired count stops
EcsStop ==
  /\ running > desired
  /\ running' = running - 1
  /\ UNCHANGED <<rules, prio, desired, pending, dbState, run, faults, initial>>

\* RDS finishes a transition
DbSettle ==
  /\ dbState \in {"stopping", "starting", "other"}
  /\ dbState' = IF dbState = "stopping" THEN "stopped" ELSE "available"
  /\ UNCHANGED <<rules, prio, desired, running, pending, run, faults, initial>>

Environment == EcsSchedule \/ EcsStart \/ EcsStop \/ DbSettle

----------------------------------------------------------------------------
(* Initial states *)

\* conditions: [ListenerCondition.hostHeaders([domainName])], and a path pattern
ManagedConditions ==
  <<[field |-> "host-header", values |-> "app.example"],
    [field |-> "path-pattern", values |-> "/*"]>>

\* The placeholder rule, forwarding to the Lambda target group
LambdaRuleByTarget ==
  [arn |-> "rLambda", type |-> "forward", tg |-> TRUE, lambd |-> TRUE,
   conditions |-> ManagedConditions]

\* The placeholder rule as the by-type variants expect it: an action of type "lambda"
LambdaRuleByType ==
  [arn |-> "rLambda", type |-> "lambda", tg |-> FALSE, lambd |-> FALSE,
   conditions |-> ManagedConditions]

\* The backend rule: listener.addAction("Redirect", { action: forward([targetGroup]) })
EcsRule ==
  [arn |-> "rEcs", type |-> "forward", tg |-> TRUE, lambd |-> FALSE,
   conditions |-> ManagedConditions]

\* The listener's default rule: defaultAction: ListenerAction.redirect(...)
DefaultRule ==
  [arn |-> "rDefault", type |-> "redirect", tg |-> FALSE, lambd |-> FALSE,
   conditions |-> <<>>]

ListenerConfigs ==
  { <<LambdaRuleByTarget, EcsRule, DefaultRule>>,
    <<LambdaRuleByType, EcsRule, DefaultRule>>,
    <<DefaultRule>> }

Arns(rs) == {rs[i].arn : i \in 1..Len(rs)}

Managed == {"rLambda", "rEcs"}

\* Distinct priorities for the managed rules; the default rule is evaluated last.
PrioAssignments(rs, m) ==
  { p \in [Arns(rs) -> 1..(m + 1)] :
      /\ p["rDefault"] = m + 1
      /\ \A a \in Arns(rs) \ {"rDefault"} : p[a] <= m
      /\ \A a, b \in Arns(rs) : a # b => p[a] # p[b] }


\* The pair holds priorities 1 and 2, either way round.
InitControlPlanes ==
  /\ rules \in ListenerConfigs
  /\ prio \in PrioAssignments(rules, SecondPriority)
  /\ desired \in {0, 1}
  /\ running \in {0, 1}
  /\ pending = 0
  /\ dbState \in DbStates
  /\ initial = Snapshot

----------------------------------------------------------------------------
(* One shutdown invocation, any control-plane call may fail *)

InitShutdown ==
  /\ InitControlPlanes
  /\ faults = TRUE
  /\ \E v \in ShutdownVariants : run = <<NewRun(v)>>

NextShutdown ==
  \/ \E r \in Runs : SwapDescribe(r)
  \/ \E r \in Runs : SwapModifyFirst(r)
  \/ \E r \in Runs : SwapModifySecond(r)
  \/ \E r \in Runs : SwapVerify(r)
  \/ \E r \in Runs : Scale(r)
  \/ \E r \in Runs : DbDescribe(r)
  \/ \E r \in Runs : DbWrite(r)
  \/ \E r \in Runs : Drain(r)
  \/ Environment

SpecShutdown == InitShutdown /\ [][NextShutdown]_vars

(* One shutdown invocation, on control planes whose calls may fail or on
   control planes whose calls all succeed; the drain loop goes on to its next
   iteration as long as the invocation lives: each iteration is a describe
   call and a 10 s sleep *)

InitDrain ==
  /\ InitControlPlanes
  /\ faults \in BOOLEAN
  /\ \E v \in ShutdownVariants : run = <<NewRun(v)>>

SpecDrain ==
  InitDrain /\ [][NextShutdown]_vars /\ WF_vars(\E r \in Runs : Drain(r))

(* One startup invocation, any control-plane call may fail *)

InitStartup ==
  /\ InitControlPlanes
  /\ faults = TRUE
  /\ \E v \in StartupVariants : run = <<NewRun(v)>>

NextStartup ==
  \/ \E r \in Runs : SwapDescribe(r)
  \/ \E r \in Runs : SwapModifyFirst(r)
  \/ \E r \in Runs : SwapModifySecond(r)
  \/ \E r \in Runs : SwapSetPriorities(r)
  \/ \E r \in Runs : SwapVerify(r)
  \/ \E r \in Runs : Scale(r)
  \/ \E r \in Runs : DbDescribe(r)
  \/ \E r \in Runs : DbWrite(r)
  \/ \E r \in Runs : Ready(r)
  \/ \E r \in Runs : ReadyEcs(r)
  \/ \E r \in Runs : ReadyRds(r)
  \/ \E r \in Runs : Replay(r)
  \/ \E r \in Runs : Forward(r)
  \/ Environment

SpecStartup == InitStartup /\ [][NextStartup]_vars

----------------------------------------------------------------------------
(* One invocation of any handler *)

InitHandler ==
  /\ InitControlPlanes
  /\ faults = TRUE
  /\ \E v \in Variants : run = <<NewRun(v)>>

NextHandler ==
  \/ \E r \in Runs : SwapDescribe(r)
  \/ \E r \in Runs : SwapModifyFirst(r)
  \/ \E r \in Runs : SwapModifySecond(r)
  \/ \E r \in Runs : SwapSetPriorities(r)
  \/ \E r \in Runs : SwapVerify(r)
  \/ \E r \in Runs : Scale(r)
  \/ \E r \in Runs : DbDescribe(r)
  \/ \E r \in Runs : DbWrite(r)
  \/ \E r \in Runs : Drain(r)
  \/ \E r \in Runs : Ready(r)
  \/ \E r \in Runs : ReadyEcs(r)
  \/ \E r \in Runs : ReadyRds(r)
  \/ \E r \in Runs : Replay(r)
  \/ \E r \in Runs : Forward(r)
  \/ Environment

SpecHandler == InitHandler /\ [][NextHandler]_vars

----------------------------------------------------------------------------
(* Two invocations, one after the other; no control-plane call fails *)

\* An invocation that has returned keeps no local state; what it did stays in
\* its log
Ended(rec) ==
  [rec EXCEPT !.attempts = 0, !.hist = <<>>, !.resp = NoResponse, !.prioAtReplay = <<>>,
              !.sent = NoRequest, !.obs = NoServiceEntry]

\* The trigger (idle alarm, or a request on the placeholder) fires once the
\* invocations before this one have ended.
Invoke(r) ==
  /\ run[r].pc = "idle"
  /\ \A q \in Runs : q < r => run[q].pc = "done"
  /\ run' = [q \in Runs |-> IF q = r THEN NewRun(run[r].variant) ELSE Ended(run[q])]
  /\ UNCHANGED <<rules, prio, desired, running, pending, dbState, faults, initial>>

SeqPairs ==
  (ShutdownVariants \X StartupVariants) \cup {<<v, v>> : v \in Variants}

InitSeq ==
  /\ rules \in ListenerConfigs
  /\ prio \in PrioAssignments(rules, MaxPrio)
  /\ \E st \in {<<1, "available">>, <<0, "stopped">>} :
        desired = st[1] /\ dbState = st[2]
  /\ running = desired
  /\ pending = 0
  /\ initial = Snapshot
  /\ faults = FALSE
  /\ \E vv \in SeqPairs : run = <<NewRun(vv[1]), Waiting(vv[2])>>

NextSeq ==
  \/ \E r \in Runs : Invoke(r)
  \/ \E r \in Runs : SwapDescribe(r)
  \/ \E r \in Runs : SwapModifyFirst(r)
  \/ \E r \in Runs : SwapModifySecond(r)
  \/ \E r \in Runs : SwapSetPriorities(r)
  \/ \E r \in Runs : SwapVerify(r)
  \/ \E r \in Runs : Scale(r)
  \/ \E r \in Runs : DbDescribe(r)
  \/ \E r \in Runs : DbWrite(r)
  \/ \E r \in Runs : Drain(r)
  \/ \E r \in Runs : Ready(r)
  \/ \E r \in Runs : ReadyEcs(r)
  \/ \E r \in Runs : ReadyRds(r)
  \/ \E r \in Runs : Replay(r)
  \/ \E r \in Runs : Forward(r)
  \/ Environment

SpecSeq == InitSeq /\ [][NextSeq]_vars

----------------------------------------------------------------------------
(* The same handler invoked twice, one invocation after the other, with
   control-plane calls that may fail: the handlers that swap with two
   ModifyRule calls *)

TwoCallVariants == {"sd_part001", "su_part003"}

\* The listener on which the handler's find() calls give both rules
ListenerFor(v) ==
  IF v \in ByTargetVariants
  THEN <<LambdaRuleByTarget, EcsRule, DefaultRule>>
  ELSE <<LambdaRuleByType, EcsRule, DefaultRule>>

InitAgain ==
  /\ \E v \in TwoCallVariants : rules = ListenerFor(v)
  /\ prio \in PrioAssignments(rules, SecondPriority)
  /\ \E st \in {<<1, "available">>, <<0, "stopped">>} :
        desired = st[1] /\ dbState = st[2]
  /\ running = desired
  /\ pending = 0
  /\ initial = Snapshot
  /\ faults = TRUE
  /\ \E v \in TwoCallVariants :
       rules = ListenerFor(v) /\ run = <<NewRun(v), Waiting(v)>>

NextAgain ==
  \/ \E r \in Runs : Invoke(r)
  \/ \E r \in Runs : SwapDescribe(r)
  \/ \E r \in Runs : SwapModifyFirst(r)
  \/ \E r \in Runs : SwapModifySecond(r)
  \/ \E r \in Runs : Scale(r)
  \/ \E r \in Runs : DbDescribe(r)
  \/ \E r \in Runs : DbWrite(r)
  \/ \E r \in Runs : Drain(r)
  \/ \E r \in Runs : Replay(r)
  \/ Environment

SpecAgain == InitAgain /\ [][NextAgain]_vars

----------------------------------------------------------------------------
(* Two invocations of the same kind at once (every request that reaches the
   placeholder starts its own invocation); their control-plane calls
   interleave freely, and no call fails for a reason of its own *)

\* Startup invocations in every pairing; shutdown invocations in pairs of which
\* at most one runs the drain loop (the loop only reads)
RacePairs ==
  (StartupVariants \X StartupVariants)
    \cup {<<"sd_part001", "sd_lambda">>, <<"sd_lambda", "sd_lambda">>,
          <<"sd_part002", "sd_part002">>}

InitRace ==
  /\ InitControlPlanes
  /\ faults = FALSE
  /\ \E vv \in RacePairs : run = <<NewRun(vv[1]), NewRun(vv[2])>>

\* The control steps only: what a startup invocation does after them (waiting,
\* replaying) changes no shared state
NextRace ==
  \/ \E r \in Runs : SwapDescribe(r)
  \/ \E r \in Runs : SwapModifyFirst(r)
  \/ \E r \in Runs : SwapModifySecond(r)
  \/ \E r \in Runs : SwapSetPriorities(r)
  \/ \E r \in Runs : SwapVerify(r)
  \/ \E r \in Runs : Scale(r)
  \/ \E r \in Runs : DbDescribe(r)
  \/ \E r \in Runs : DbWrite(r)
  \/ \E r \in Runs : Drain(r)
  \/ Environment

SpecRace == InitRace /\ [][NextRace]_vars

(* A shutdown invocation and a startup invocation at once (the idle alarm
   fires while a request reaches the placeholder); their control-plane calls
   interleave freely, and no call fails for a reason of its own *)

InitMixed ==
  /\ InitControlPlanes
  /\ faults = FALSE
  /\ \E vv \in ShutdownVariants \X StartupVariants :
       run = <<NewRun(vv[1]), NewRun(vv[2])>>

SpecMixed == InitMixed /\ [][NextRace]_vars

----------------------------------------------------------------------------
(* One startup invocation with its payloads: the captured request drawn from
   Events against the plain backend, or the default request against a backend
   whose responses differ in headers and body; no control-plane call fails *)

\* Header names and values a captured request can carry
EventHeaderValues ==
  ("Host" :> "app.example") @@ ("X-Amz-Cf-Id" :> "cf1") @@ ("x-amz-date" :> "20240101")
    @@ ("x-amzn-trace-id" :> "Root=1") @@ ("Accept" :> "text/html") @@ ("x-empty" :> "")

Events ==
  { Event(mb[1], Restrict(EventHeaderValues, names), mb[2]) :
      mb \in {<<"GET", "">>, <<"POST", "payload">>},
      names \in {ns \in SUBSET DOMAIN EventHeaderValues : Cardinality(ns) <= MaxHeaders} }

\* Responses without headers, with a content type, and with a cookie as well;
\* bodies that are text and bodies that are not valid UTF-8
PayloadOutcomes ==
  {HttpResponse(s, hs, b) :
     s \in Statuses,
     hs \in {NoHeaders, HtmlHeaders, HtmlHeaders @@ ("set-cookie" :> "sid=1")},
     b \in {"text", "bytes"}}
    \cup {NetworkError, OtherError}

InitReplay ==
  /\ rules = <<LambdaRuleByTarget, EcsRule, DefaultRule>>
  /\ prio \in PrioAssignments(rules, SecondPriority)
  /\ desired = 0
  /\ running \in {0, 1}
  /\ pending = 0
  /\ dbState = "stopped"
  /\ initial = Snapshot
  /\ faults = FALSE
  /\ \E v \in StartupVariants :
       \E eb \in (Events \X {Outcomes}) \cup ({DefaultEvent} \X {PayloadOutcomes}) :
         run = <<[NewRun(v) EXCEPT !.event = eb[1], !.backend = eb[2]]>>

NextReplay ==
  \/ \E r \in Runs : SwapDescribe(r)
  \/ \E r \in Runs : SwapModifyFirst(r)
  \/ \E r \in Runs : SwapModifySecond(r)
  \/ \E r \in Runs : SwapSetPriorities(r)
  \/ \E r \in Runs : SwapVerify(r)
  \/ \E r \in Runs : Scale(r)
  \/ \E r \in Runs : DbDescribe(r)
  \/ \E r \in Runs : DbWrite(r)
  \/ \E r \in Runs : Ready(r)
  \/ \E r \in Runs : ReadyEcs(r)
  \/ \E r \in Runs : ReadyRds(r)
  \/ \E r \in Runs : Replay(r)
  \/ \E r \in Runs : Forward(r)
  \/ Environment

SpecReplay == InitReplay /\ [][NextReplay]_vars

----------------------------------------------------------------------------
(* One invocation of a startup handler that waits for readiness, on the
   listener whose rules its find() calls give, and on a service that has any
   number of running and pending tasks when the request arrives
   (tasks of an earlier deployment, tasks still being placed); no control-plane
   call fails *)

WaitingVariants == {"su_lambda", "su_legacy"}

InitReadiness ==
  /\ rules \in {ListenerFor(v) : v \in WaitingVariants}
  /\ prio \in PrioAssignments(rules, SecondPriority)
  /\ desired \in {0, 1}
  /\ running \in 0..MaxTasks
  /\ pending \in 0..MaxTasks
  /\ dbState \in DbStates
  /\ initial = Snapshot
  /\ faults = FALSE
  /\ \E v \in WaitingVariants : rules = ListenerFor(v) /\ run = <<NewRun(v)>>

NextReadiness ==
  \/ \E r \in Runs : SwapDescribe(r)
  \/ \E r \in Runs : SwapModifyFirst(r)
  \/ \E r \in Runs : SwapModifySecond(r)
  \/ \E r \in Runs : SwapSetPriorities(r)
  \/ \E r \in Runs : SwapVerify(r)
  \/ \E r \in Runs : Scale(r)
  \/ \E r \in Runs : DbDescribe(r)
  \/ \E r \in Runs : DbWrite(r)
  \/ \E r \in Runs : Ready(r)
  \/ \E r \in Runs : ReadyEcs(r)
  \/ \E r \in Runs : ReadyRds(r)
  \/ \E r \in Runs : Replay(r)
  \/ \E r \in Runs : Forward(r)
  \/ Environment

SpecReadiness == InitReadiness /\ [][NextReadiness]_vars

----------------------------------------------------------------------------
(* One invocation of a startup handler that replays in the while (true) loop,
   against a backend that answers anything or never answers 2xx, and that may
   come up for good while the loop runs; no control-plane call fails. The loop
   goes on to its next iteration as long as the invocation lives: each
   iteration is a fetch and a 5 s sleep *)

\* The backend is up from now on: every further attempt is answered 200
BackendRecovers(r) ==
  /\ At(r, "replay")
  /\ run[r].attempts < MaxAttempts
  /\ run[r].backend # {HttpOutcome(200)}
  /\ run' = [run EXCEPT ![r].backend = {HttpOutcome(200)}]
  /\ UNCHANGED <<rules, prio, desired, running, pending, dbState, faults, initial>>

InitRetry ==
  /\ rules = <<LambdaRuleByTarget, EcsRule, DefaultRule>>
  /\ prio \in PrioAssignments(rules, SecondPriority)
  /\ desired \in {0, 1}
  /\ running \in {0, 1}
  /\ pending = 0
  /\ dbState \in DbStates
  /\ initial = Snapshot
  /\ faults = FALSE
  /\ \E v \in RetryVariants :
       \E b \in {Outcomes, {o \in Outcomes : ~IsSuccess(o)}} :
         run = <<[NewRun(v) EXCEPT !.backend = b]>>

NextRetry ==
  \/ \E r \in Runs : SwapDescribe(r)
  \/ \E r \in Runs : SwapModifyFirst(r)
  \/ \E r \in Runs : SwapModifySecond(r)
  \/ \E r \in Runs : SwapSetPriorities(r)
  \/ \E r \in Runs : SwapVerify(r)
  \/ \E r \in Runs : Scale(r)
  \/ \E r \in Runs : DbDescribe(r)
  \/ \E r \in Runs : DbWrite(r)
  \/ \E r \in Runs : Ready(r)
  \/ \E r \in Runs : Replay(r)
  \/ \E r \in Runs : BackendRecovers(r)
  \/ Environment

SpecRetry ==
  InitRetry /\ [][NextRetry]_vars /\ WF_vars(\E r \in Runs : Replay(r))

----------------------------------------------------------------------------
(* What an invocation did, read from its log *)


Did(r, c)   == \E i \in DOMAIN run[r].log : run[r].log[i].call = c
DidOk(r, c) == \E i \in DOMAIN run[r].log : run[r].log[i].call = c /\ run[r].log[i].ok

\* Both priority updates of the swap were applied
SwapApplied(r) ==
  \/ DidOk(r, "SetRulePriorities")
  \/ DidOk(r, "ModifyRule1") /\ DidOk(r, "ModifyRule2")

IsShutdown(r) == run[r].variant \in ShutdownVariants
IsStartup(r)  == run[r].variant \in StartupVariants

PlaceholderOnTop(p) == Managed \subseteq DOMAIN p /\ p["rLambda"] < p["rEcs"]
BackendOnTop(p)     == Managed \subseteq DOMAIN p /\ p["rEcs"] < p["rLambda"]

\* The pair as the awake system has it, and as the sleeping system has it
Awake(p)  == Managed \subseteq DOMAIN p /\ p["rEcs"] = 1 /\ p["rLambda"] = 2
Asleep(p) == Managed \subseteq DOMAIN p /\ p["rLambda"] = 1 /\ p["rEcs"] = 2

\* A status that is neither 2xx nor 502 / 503
Definitive(o) ==
  o.kind = "http" /\ ~(o.status \in 200..299) /\ o.status \notin {502, 503}

----------------------------------------------------------------------------
(* C1 *)

----------------------------------------------------------------------------
(* C2 *)

----------------------------------------------------------------------------
(* C3 *)

\* C3: in the retrying variants, when the backend answered 503 on attempts
\* 1..k and 2xx on attempt k+1, the replay has returned that 2xx response and
\* exactly k+1 attempts were issued: no attempt follows the first 2xx.
C3_ReplayStopsAtFirst2xx ==
  \A r \in Runs :
    run[r].variant \in RetryVariants =>
      \A n \in 1..Len(run[r].hist) :
        /\ \A i \in 1..(n - 1) : run[r].hist[i] = HttpOutcome(503)
        /\ run[r].hist[n].kind = "http" /\ run[r].hist[n].status \in 200..299
        => /\ Len(run[r].hist) = n
           /\ run[r].attempts = n
           /\ run[r].outcome = "returned"
           /\ run[r].resp.statusCode = run[r].hist[n].status
           /\ run[r].resp.att = n

\* 503, 503, 200: the 200 is returned after exactly 3 attempts
C3_Witness ==
  \E r \in Runs :
    /\ run[r].variant \in RetryVariants
    /\ run[r].hist = <<HttpOutcome(503), HttpOutcome(503), HttpOutcome(200)>>
    /\ run[r].outcome = "returned" /\ run[r].attempts = 3
    /\ run[r].resp.statusCode = 200

----------------------------------------------------------------------------
(* C4 *)

----------------------------------------------------------------------------
(* C5 *)

\* A complete shutdown run, then a complete startup run that began on a
\* converged control plane (tasks match the desired count, the database is in
\* no transitional state), from the awake state
RoundTripDone ==
  /\ IsShutdown(1) /\ IsStartup(2)
  /\ run[1].pc = "done" /\ run[2].pc = "done"
  /\ Awake(initial.prio) /\ initial.desired = 1 /\ initial.dbState = "available"
  /\ run[2].start.running = run[2].start.desired /\ run[2].start.pending = 0
  /\ run[2].start.dbState \notin {"stopping", "starting"}

----------------------------------------------------------------------------
(* C6 *)

\* C6: when the same handler runs twice in a row, whatever the priorities of the
\* two managed rules were at first, the priorities its swap leaves the second
\* time are those it left the first time.
C6_SwapTwiceSameAsOnce ==
  (run[1].variant = run[2].variant /\ run[1].swapped /\ run[2].swapped) =>
    run[2].prioAfterSwap = run[1].prioAfterSwap

\* both swaps were applied, and the first one changed the assignment
C6_Witness ==
  /\ run[1].variant = run[2].variant
  /\ run[1].swapped /\ run[2].swapped
  /\ SwapApplied(1) /\ SwapApplied(2)
  /\ run[1].prioAfterSwap # initial.prio
  /\ initial.prio["rEcs"] = MaxPrio

----------------------------------------------------------------------------
(* C7 *)

\* Every invocation is a startup and is past its control steps
StartupsPastControl ==
  \A r \in Runs :
    /\ IsStartup(r)
    /\ run[r].pc \notin {"scale", "db", "dbWrite", "swap", "swap1", "swap2", "swapSet",
                          "swapVerify"}

----------------------------------------------------------------------------
(* C8 *)

\* C8 as stated: every start call is issued while the database is stopped and
\* every stop call while it is available; a database that is already starting
\* (stopping) receives no second start (stop) call.
C8_WriteOnlyFromExpectedState ==
  \A r \in Runs : \A i \in DOMAIN run[r].log :
    run[r].log[i].call = "DbWrite" => run[r].log[i].at = DbExpected(run[r].variant)

----------------------------------------------------------------------------
(* C9 *)

\* C9: a shutdown run whose DescribeDBInstances returned a status other than
\* available (stopped, stopping, starting, other) issues no stop call, and when
\* it ends it ends successfully.
C9_NoStopUnlessAvailable ==
  \A r \in Runs :
    IsShutdown(r) =>
      \A i \in DOMAIN run[r].log :
        /\ run[r].log[i].call = "DescribeDB" /\ run[r].log[i].ok
        /\ run[r].log[i].at \in DbStates \ {"available"}
        => /\ ~Did(r, "DbWrite")
           /\ run[r].pc = "done" => run[r].outcome = "ok"

\* a shutdown run that found the database stopped and has completed
C9_Witness ==
  \E r \in Runs :
    /\ IsShutdown(r) /\ run[r].outcome = "ok" /\ ~Did(r, "DbWrite")
    /\ \E i \in DOMAIN run[r].log :
         run[r].log[i] = LogEntry("DescribeDB", TRUE, "stopped")

----------------------------------------------------------------------------
(* C10 *)

\* C10: a shutdown run that set the desired count to 0 and whose drain wait ran
\* out of attempts goes on to the database step and completes without raising.
C10_StuckDrainStillStopsDatabase ==
  \A r \in Runs :
    IsShutdown(r) /\ DidOk(r, "UpdateService") /\ Did(r, "drain") /\ ~DidOk(r, "drain")
      => \/ run[r].outcome = "active" /\ run[r].pc \in {"db", "dbWrite"}
         \/ run[r].outcome = "ok" /\ Did(r, "DescribeDB")

\* the drain timed out with a task still running, and the stop call was issued
C10_Witness ==
  \E r \in Runs :
    /\ IsShutdown(r) /\ DidOk(r, "UpdateService") /\ Did(r, "drain") /\ ~DidOk(r, "drain")
    /\ running = 1 /\ DidOk(r, "DbWrite") /\ run[r].outcome = "ok"

----------------------------------------------------------------------------
(* C11 *)

----------------------------------------------------------------------------
(* C12 *)

\* The 503 response of the startup handlers: Retry-After: 30 and a JSON body
\* with the fields message and error
IsStartingUpAnswer(resp) ==
  /\ resp.statusCode = 503
  /\ "Retry-After" \in DOMAIN resp.headers /\ resp.headers["Retry-After"] = "30"
  /\ resp.body = "{message,error}"

\* C12: a startup run whose UpdateService(desiredCount 1) call failed returns
\* the 503 / Retry-After: 30 / { message, error } response and has issued no
\* replay attempt, no database call and no rule call.
C12_ScaleFailureAnswersStartingUp ==
  \A r \in Runs :
    (IsStartup(r) /\ Did(r, "UpdateService") /\ ~DidOk(r, "UpdateService")) =>
      /\ run[r].outcome = "returned"
      /\ IsStartingUpAnswer(run[r].resp)
      /\ run[r].hist = <<>> /\ run[r].sent = NoRequest
      /\ \A i \in DOMAIN run[r].log : run[r].log[i].call = "UpdateService"
      /\ prio = initial.prio

\* the scale call failed on a sleeping system
C12_Witness ==
  \E r \in Runs :
    /\ IsStartup(r) /\ Did(r, "UpdateService") /\ ~DidOk(r, "UpdateService")
    /\ run[r].pc = "done"
    /\ desired = 0 /\ dbState = "stopped" /\ Asleep(prio)

----------------------------------------------------------------------------
(* C13 *)

\* C13: a startup run whose readiness wait ran out of attempts has issued no
\* replay attempt and returns the 503 / Retry-After: 30 response.
C13_ReadinessTimeoutAnswersStartingUp ==
  \A r \in Runs :
    (\/ Did(r, "ready") /\ ~DidOk(r, "ready")
     \/ Did(r, "readyRds") /\ ~DidOk(r, "readyRds")) =>
      /\ run[r].outcome = "returned"
      /\ IsStartingUpAnswer(run[r].resp)
      /\ run[r].hist = <<>> /\ run[r].sent = NoRequest

\* the service never got a running task while the run polled, after a swap
\* that put the backend on top
C13_Witness ==
  \E r \in Runs :
    /\ run[r].variant = "su_lambda"
    /\ Did(r, "ready") /\ ~DidOk(r, "ready")
    /\ DidOk(r, "UpdateService") /\ SwapApplied(r)
    /\ running = 0 /\ run[r].pc = "done"

----------------------------------------------------------------------------
(* C14 *)

\* C14 as stated: at every moment the two managed rules have distinct
\* priorities and exactly one of them has priority 1.
C14_PairDistinctOneOnTop ==
  Managed \subseteq DOMAIN prio =>
    /\ prio["rLambda"] # prio["rEcs"]
    /\ (prio["rLambda"] = 1) # (prio["rEcs"] = 1)

----------------------------------------------------------------------------
(* C15 *)

\* The program counters inside swapListenerRulePriorities
SwapPcs == {"swap", "swap1", "swap2", "swapSet", "swapVerify"}

\* The run's DescribeRules succeeded and its find() calls did not give both rules
FoundFewerThanTwo(r) ==
  DidOk(r, "DescribeRules") /\ (run[r].lrule = "none" \/ run[r].erule = "none")

\* C15: a swap whose discovery found none or only one of the two rules issues
\* no priority update, leaves every priority as it was, and returns, so that the
\* handler goes on: a handler whose last step is the swap ends normally.
C15_IncompleteDiscoveryIsNoOp ==
  \A r \in Runs :
    FoundFewerThanTwo(r) =>
      /\ ~Did(r, "ModifyRule1") /\ ~Did(r, "ModifyRule2") /\ ~Did(r, "SetRulePriorities")
      /\ prio = initial.prio
      /\ run[r].swapped /\ run[r].pc \notin SwapPcs
      /\ run[r].prioAfterSwap = initial.prio
      /\ (run[r].pc = "done" /\ After(run[r].variant, "swap") = "end") =>
           run[r].outcome = "ok"

\* only the backend rule was found, and the handler went on to scale the service
C15_Witness ==
  \E r \in Runs :
    /\ FoundFewerThanTwo(r)
    /\ run[r].erule # "none" /\ run[r].lrule = "none"
    /\ run[r].variant = "sd_part001" /\ DidOk(r, "UpdateService")

----------------------------------------------------------------------------
(* C16 *)

\* C16: at every moment of a run, and so after its swap, every rule of the
\* listener has the match conditions and the action it had before the run;
\* only priorities differ.
C16_SwapKeepsConditionsAndActions ==
  /\ Len(rules) = Len(initial.rules)
  /\ \A i \in DOMAIN rules :
       /\ rules[i].arn = initial.rules[i].arn
       /\ rules[i].conditions = initial.rules[i].conditions
       /\ rules[i].type = initial.rules[i].type
       /\ rules[i].tg = initial.rules[i].tg
       /\ rules[i].lambd = initial.rules[i].lambd

\* the swap that rewrites the host-header condition was applied to both rules
\* and changed their priorities
C16_Witness ==
  \E r \in Runs :
    /\ run[r].variant = "sd_part002" /\ run[r].swapped
    /\ DidOk(r, "ModifyRule1") /\ DidOk(r, "ModifyRule2")
    /\ Awake(initial.prio) /\ Asleep(prio)

----------------------------------------------------------------------------
(* C17 *)

\* The names, as captured, of the host header and of the headers whose name
\* begins with x-amz- in any letter case
TransportHeaderNames == {"Host", "host", "X-Amz-Cf-Id", "x-amz-cf-id", "x-amz-date"}

\* C17 as stated: the request of a replay attempt carries no host header and no
\* x-amz- prefixed header, carries every other header of the captured request
\* with its value, and carries the captured method and body.
C17_ReplayStripsOnlyTransportHeaders ==
  \A r \in Runs :
    run[r].hist # <<>> =>
      LET ev == run[r].event
          rq == run[r].sent
      IN  /\ DOMAIN rq.headers \cap TransportHeaderNames = {}
          /\ \A k \in DOMAIN ev.headers \ TransportHeaderNames :
               k \in DOMAIN rq.headers /\ rq.headers[k] = ev.headers[k]
          /\ rq.method = ev.httpMethod
          /\ rq.body = ev.body

----------------------------------------------------------------------------
(* C18 *)

\* The run returned a response built from a response of the backend
ReturnedBackendResponse(r) == run[r].outcome = "returned" /\ run[r].resp.att >= 1

\* A 2xx response, or a response with a status other than 502 and 503
FirstToReturn(o) == o.kind = "http" /\ (o.status \in 200..299 \/ Definitive(o))

----------------------------------------------------------------------------
(* C19 *)

\* The first call of step s is in the run's log
StepStarted(r, s) ==
  Did(r, CASE s = "swap"  -> "DescribeRules"
           [] s = "scale" -> "UpdateService"
           [] s = "drain" -> "drain"
           [] s = "db"    -> "DescribeDB"
           [] OTHER       -> s)

\* The steps of the handler's sequence
Steps(v) == {Program(v)[i] : i \in DOMAIN Program(v)}

\* C19 as stated: whatever failed on the way, a shutdown run that is over has
\* executed every step of its sequence.
C19_EveryShutdownStepRuns ==
  \A r \in Runs :
    (IsShutdown(r) /\ run[r].pc = "done") =>
      \A s \in Steps(run[r].variant) : StepStarted(r, s)

\* C19 amended: a shutdown run in which UpdateService did not fail executes
\* every step of its sequence and ends successfully, whatever failed in the
\* swap, the drain wait or the database step; a failure of UpdateService is
\* rethrown by the handler and none of the steps after it is executed.
C19_ShutdownStepsBestEffortButScale ==
  \A r \in Runs :
    (IsShutdown(r) /\ run[r].pc = "done") =>
      IF Did(r, "UpdateService") /\ ~DidOk(r, "UpdateService")
      THEN /\ run[r].outcome = "raised"
           /\ run[r].log[Len(run[r].log)].call = "UpdateService"
      ELSE /\ run[r].outcome = "ok"
           /\ \A s \in Steps(run[r].variant) : StepStarted(r, s)

\* the swap's first update failed, the drain wait ran out and the stop call
\* failed, and the run still ended successfully
C19_Witness ==
  \E r \in Runs :
    /\ run[r].variant = "sd_part001" /\ run[r].outcome = "ok"
    /\ Did(r, "ModifyRule1") /\ ~DidOk(r, "ModifyRule1")
    /\ DidOk(r, "UpdateService")
    /\ Did(r, "drain") /\ ~DidOk(r, "drain")
    /\ Did(r, "DbWrite") /\ ~DidOk(r, "DbWrite")

----------------------------------------------------------------------------
(* C20 *)

\* Call c is in the run's log before position i
DidBefore(r, c, i) == \E j \in 1..(i - 1) : run[r].log[j].call = c

\* C20 as stated: in every shutdown run the desired count is set only after the
\* rule swap was attempted, and the database stop is issued only after the
\* drain wait is over.
C20_ShutdownStepOrder ==
  \A r \in Runs :
    IsShutdown(r) =>
      \A i \in DOMAIN run[r].log :
        /\ run[r].log[i].call = "UpdateService" => DidBefore(r, "DescribeRules", i)
        /\ run[r].log[i].call = "DbWrite" =>
             /\ DidBefore(r, "drain", i)
             /\ DidBefore(r, "UpdateService", i)

----------------------------------------------------------------------------
(* C21 *)

\* C21 as stated: a shutdown run in which no step failed (no call threw, no
\* describe call came back empty, no wait ran out), started from the awake
\* state (backend rule on top, one task desired) with the database available,
\* ends with the placeholder rule on top, desired count 0 and the database
\* stopping or stopped.
C21_CleanShutdownEndsAsleep ==
  \A r \in Runs :
    (/\ IsShutdown(r) /\ run[r].outcome = "ok"
     /\ \A i \in DOMAIN run[r].log : run[r].log[i].ok /\ run[r].log[i].at # "missing"
     /\ Awake(initial.prio) /\ initial.desired = 1
     /\ initial.dbState = "available") =>
      /\ PlaceholderOnTop(prio)
      /\ desired = 0
      /\ dbState \in {"stopping", "stopped"}

----------------------------------------------------------------------------
(* C22 *)

\* The run's UpdateService call threw
ScaleCallFailed(r) == Did(r, "UpdateService") /\ ~DidOk(r, "UpdateService")

\* C22: a shutdown run whose UpdateService(desiredCount 0) call failed is over
\* at once with the error rethrown to the invoker; it has polled no drain wait
\* and made no database call, and the desired count is what it was.
C22_ScaleFailureAbortsShutdown ==
  \A r \in Runs :
    (IsShutdown(r) /\ ScaleCallFailed(r)) =>
      /\ run[r].pc = "done" /\ run[r].outcome = "raised"
      /\ run[r].attempts = 0
      /\ ~Did(r, "drain") /\ ~Did(r, "DescribeDB") /\ ~Did(r, "DbWrite")
      /\ desired = initial.desired

\* the handler that swaps first had swapped, then its scale call failed on the
\* running service with the database up
C22_Witness ==
  \E r \in Runs :
    /\ run[r].variant = "sd_part001" /\ ScaleCallFailed(r)
    /\ SwapApplied(r) /\ Asleep(prio)
    /\ desired = 1 /\ dbState = "available"

----------------------------------------------------------------------------
(* C23 *)

\* The last attempt of the run so far ended in an outcome of kind k
LastAttemptWas(r, k) ==
  run[r].hist # <<>> /\ run[r].hist[Len(run[r].hist)].kind = k

\* The run is inside the retry loop, about to sleep and try again
StillRetrying(r) == run[r].outcome = "active" /\ run[r].pc = "replay"

\* The single attempt of forwardRequestToEcs threw and its catch answered
AnsweredBadGateway(r) ==
  /\ run[r].outcome = "returned" /\ run[r].pc = "done"
  /\ run[r].attempts = 1
  /\ run[r].resp = BadGatewayResponse

----------------------------------------------------------------------------
(* C24 *)

\* C24 as stated: after a replay attempt that threw something else than a
\* network-level failure, the startup run has returned the 502 response, and
\* that attempt was its last.
C24_OtherExceptionAnswersBadGateway ==
  \A r \in Runs : \A i \in DOMAIN run[r].hist :
    (IsStartup(r) /\ run[r].hist[i].kind = "err") =>
      /\ Len(run[r].hist) = i
      /\ run[r].outcome = "returned"
      /\ run[r].resp.statusCode = BadGatewayStatus

\* C24 amended: forwardRequestToEcs returns the 502 response at once when its
\* attempt throws, whatever was thrown; forwardRequestToEcsWithRetry treats
\* every exception as retryable, goes on to another attempt, and never returns
\* a 502 of its own making.
C24_ExceptionAnswersBadGatewayInSingleAttemptOnly ==
  \A r \in Runs :
    IsStartup(r) =>
      /\ (run[r].variant \notin RetryVariants
            /\ (LastAttemptWas(r, "err") \/ LastAttemptWas(r, "neterr")))
           => AnsweredBadGateway(r) /\ Len(run[r].hist) = 1
      /\ (run[r].variant \in RetryVariants /\ LastAttemptWas(r, "err"))
           => StillRetrying(r)
      /\ run[r].variant \in RetryVariants => run[r].resp # BadGatewayResponse

\* the single attempt threw after the readiness waits had succeeded
C24_Witness ==
  \E r \in Runs :
    /\ run[r].variant = "su_legacy" /\ run[r].hist = <<OtherError>>
    /\ DidOk(r, "ready") /\ DidOk(r, "readyRds")
    /\ AnsweredBadGateway(r)

----------------------------------------------------------------------------
(* C25 *)

\* The run's wait for the service reported ready, on the observation obs
ReportedReady(r) == DidOk(r, "ready") /\ run[r].obs.present

\* C25 as stated: the observation on which a readiness wait reported ready has
\* desired = running, running >= 1 and pending = 0.
C25_ReadyOnlyWhenConverged ==
  \A r \in Runs :
    ReportedReady(r) =>
      /\ run[r].obs.desiredCount = run[r].obs.runningCount
      /\ run[r].obs.runningCount >= 1
      /\ run[r].obs.pendingCount = 0

\* C25 amended: waitForEcsServiceReady reports ready only on an observation
\* with status ACTIVE, running >= 1 and pending = 0, whatever the desired count;
\* waitForInfrastructureReady only on one with status ACTIVE and
\* running = desired = 1, whatever the pending count.
C25_ReadyOnlyOnEachWaitsOwnTest ==
  \A r \in Runs :
    ReportedReady(r) =>
      /\ run[r].obs.status = "ACTIVE"
      /\ run[r].obs.runningCount >= 1
      /\ run[r].variant = "su_lambda" => run[r].obs.pendingCount = 0
      /\ run[r].variant = "su_legacy" =>
           run[r].obs.runningCount = 1 /\ run[r].obs.desiredCount = 1

\* the wait of startup/lambda.mjs reported ready with two tasks running for a
\* desired count of 1 and none pending
C25_Witness ==
  \E r \in Runs :
    /\ ReportedReady(r) /\ run[r].variant = "su_lambda"
    /\ run[r].obs.runningCount = 2 /\ run[r].obs.desiredCount = 1
    /\ run[r].obs.pendingCount = 0

----------------------------------------------------------------------------
(* C26 *)

\* A describe call of the run returned the database as available
SawDbAvailable(r) ==
  \/ DidOk(r, "readyRds")
  \/ \E i \in DOMAIN run[r].log :
       run[r].log[i] = LogEntry("DescribeDB", TRUE, "available")

\* C26 as stated: a run of a handler with a readiness wait that has issued a
\* replay attempt had seen the service ready and the database available.
C26_ReplayAfterBackendAndDatabaseReady ==
  \A r \in Runs :
    (run[r].variant \in WaitingVariants /\ run[r].hist # <<>>) =>
      DidOk(r, "ready") /\ SawDbAvailable(r)

\* C26 amended: in both handlers the first replay attempt is issued only after
\* the service was observed ready; only waitForInfrastructureReady also waits
\* for the database, so only that handler's attempt comes after the database
\* was observed available, and then the database is available.
C26_ReplayAfterBackendReadyAndDatabaseOnlyInLegacy ==
  \A r \in Runs :
    (run[r].variant \in WaitingVariants /\ run[r].hist # <<>>) =>
      /\ DidOk(r, "ready")
      /\ run[r].variant = "su_legacy" => DidOk(r, "readyRds") /\ dbState = "available"
      /\ run[r].variant = "su_lambda" => ~Did(r, "readyRds")

\* startup/lambda.mjs replayed while the database it had started was still
\* starting
C26_Witness ==
  \E r \in Runs :
    /\ run[r].variant = "su_lambda" /\ run[r].hist # <<>>
    /\ DidOk(r, "ready") /\ DidOk(r, "DbWrite")
    /\ ~SawDbAvailable(r)
    /\ dbState = "starting"

----------------------------------------------------------------------------
(* C27 *)

\* One poll of the wait either goes on with one attempt more counted, or ends
\* the wait. It goes on from a drained service only when the describe call
\* failed; it ends the wait with "drained" only on a drained service or on an
\* answer without the service (read as 0 and 0), and without "drained" only
\* with the last attempt of the budget.
DrainPoll(r) ==
  LET ServiceDrained == running = 0 /\ desired = 0
  IN  (At(r, "drain") /\ run'[r] # run[r]) =>
        /\ run'[r].pc = "drain" =>
             /\ run'[r].attempts = run[r].attempts + 1
             /\ run'[r].attempts < DrainMaxAttempts
             /\ ServiceDrained => faults
        /\ run'[r].pc # "drain" =>
             /\ run'[r].pc = After(run[r].variant, "drain")
             /\ DidOk(r, "drain")' => (ServiceDrained \/ faults)
             /\ ~DidOk(r, "drain")' => run[r].attempts + 1 = DrainMaxAttempts

----------------------------------------------------------------------------
(* C28 *)

\* C28 as stated: no startup run has both waited for readiness and then
\* replayed with a retry loop that has no attempt cap (the while (true) loop of
\* the retrying handlers).
C28_WaitOrUncappedRetryNotBoth ==
  \A r \in Runs :
    IsStartup(r) =>
      ~(Did(r, "ready") /\ run[r].hist # <<>> /\ run[r].variant \in RetryVariants)

----------------------------------------------------------------------------
(* C29 *)

\* The first ModifyRule call of the run's swap succeeded and the second failed
SwapHalfApplied(r) ==
  DidOk(r, "ModifyRule1") /\ Did(r, "ModifyRule2") /\ ~DidOk(r, "ModifyRule2")

\* C29: a swap whose first update succeeded and whose second failed has
\* returned to its handler with the first update in place and the other rule
\* untouched; and when the same handler's swap runs again later and both its
\* updates succeed, it ends with its target rule at priority 1 and the other
\* rule at priority 2.
C29_HalfAppliedSwapIsRepairedByNextSwap ==
  LET TargetRule(r) == FirstTarget(run[r].variant, run[r].lrule, run[r].erule)
      OtherRule(r)  == SecondTarget(run[r].variant, run[r].lrule, run[r].erule)
  IN  SwapHalfApplied(1) =>
        /\ run[1].swapped /\ run[1].pc \notin SwapPcs
        /\ run[1].prioAfterSwap[TargetRule(1)] = TopPriority
        /\ run[1].prioAfterSwap[OtherRule(1)] = initial.prio[OtherRule(1)]
        /\ (run[2].swapped /\ SwapApplied(2)) =>
             /\ run[2].prioAfterSwap[TargetRule(2)] = TopPriority
             /\ run[2].prioAfterSwap[OtherRule(2)] = SecondPriority
             /\ TargetRule(2) = TargetRule(1)

\* the half-applied swap left both rules at priority 1, and the next swap of
\* the same handler put the other rule at 2
C29_Witness ==
  /\ SwapHalfApplied(1)
  /\ run[1].prioAfterSwap["rLambda"] = run[1].prioAfterSwap["rEcs"]
  /\ run[2].swapped /\ SwapApplied(2)
  /\ prio[FirstTarget(run[2].variant, run[2].lrule, run[2].erule)] = TopPriority
  /\ prio[SecondTarget(run[2].variant, run[2].lrule, run[2].erule)] = SecondPriority

----------------------------------------------------------------------------
(* C30 *)

\* The run's DescribeDBInstances returned the database in state st
DescribedDbAs(r, st) ==
  \E i \in DOMAIN run[r].log : run[r].log[i] = LogEntry("DescribeDB", TRUE, st)

\* C30: a startup run whose DescribeDBInstances returned a status other than
\* stopped (available, starting, stopping, other) issues no start call and
\* goes on to the rule swap; the database step has not ended the run.
C30_NoStartUnlessStopped ==
  \A r \in Runs : \A st \in DbStates \ {"stopped"} :
    (IsStartup(r) /\ DescribedDbAs(r, st)) =>
      /\ ~Did(r, "DbWrite")
      /\ run[r].pc \in SwapPcs \/ run[r].swapped
      /\ run[r].pc \in SwapPcs => run[r].outcome = "active"

\* the database was still stopping from the shutdown before: no start call,
\* the swap was applied and the replay returned the backend's answer
C30_Witness ==
  \E r \in Runs :
    /\ IsStartup(r) /\ DescribedDbAs(r, "stopping")
    /\ ~Did(r, "DbWrite") /\ SwapApplied(r)
    /\ run[r].outcome = "returned" /\ run[r].resp.statusCode = 200
    /\ dbState = "stopped"

----------------------------------------------------------------------------
(* C31 *)

----------------------------------------------------------------------------
(* C32 *)

\* C32: in every step, a run that issues an accepted UpdateService call leaves
\* the desired count at 0 when it is a shutdown run and at 1 when it is a
\* startup run; the desired count changes in no other step; and a step in
\* which the running or the pending count changes is a step of the control
\* plane, not of a run.
C32_RunsWriteOnlyDesiredCount ==
  [][ /\ \A r \in Runs :
           run'[r].log = Append(run[r].log, LogEntry("UpdateService", TRUE, "")) =>
             desired' = IF IsShutdown(r) THEN 0 ELSE 1
      /\ desired' # desired =>
           \E r \in Runs :
             run'[r].log = Append(run[r].log, LogEntry("UpdateService", TRUE, ""))
      /\ (running' # running \/ pending' # pending) => run' = run ]_vars

\* a startup run raised the desired count from 0 to 1, and the service's task
\* came up on its own
C32_Witness ==
  \E r \in Runs :
    /\ IsStartup(r) /\ DidOk(r, "UpdateService")
    /\ initial.desired = 0 /\ desired = 1
    /\ initial.running = 0 /\ running = 1

----------------------------------------------------------------------------
(* C33 *)

\* C33: a startup run never raises, whatever calls fail: a run that has ended
\* has returned a response with a status code, which is the response its
\* replay step returned (the backend's, or the replay step's own 502) or the
\* handler's 503 response.
C33_StartupNeverRaises ==
  \A r \in Runs :
    IsStartup(r) =>
      /\ run[r].outcome # "raised"
      /\ run[r].pc = "done" =>
           /\ run[r].outcome = "returned"
           /\ run[r].resp.statusCode \in Statuses \cup {BadGatewayStatus, StartingUpStatus}
           /\ \/ run[r].resp = StartingUpResponse /\ run[r].hist = <<>>
              \/ /\ run[r].hist # <<>>
                 /\ run[r].resp \in
                      { BackendResponse(run[r].hist[Len(run[r].hist)], Len(run[r].hist)),
                        BadGatewayResponse }

\* discovery and the database call failed, the first replay attempt failed in
\* the network, and the run still returned the backend's answer
C33_Witness ==
  \E r \in Runs :
    /\ IsStartup(r) /\ run[r].pc = "done"
    /\ Did(r, "DescribeRules") /\ ~DidOk(r, "DescribeRules")
    /\ Did(r, "DescribeDB") /\ ~DidOk(r, "DescribeDB")
    /\ run[r].hist = <<NetworkError, HttpOutcome(200)>>
    /\ run[r].resp.statusCode = 200

----------------------------------------------------------------------------
(* C34 *)

\* C34: a shutdown run has raised to its invoker exactly when its
\* UpdateService(desiredCount 0) call failed; failed rule discovery, failed
\* priority updates, failed drain polls and failed database calls leave the
\* run going.
C34_ShutdownRaisesIffScaleFails ==
  \A r \in Runs :
    IsShutdown(r) =>
      (run[r].outcome = "raised" <=> ScaleCallFailed(r))

\* discovery failed, the scale call went through, the drain wait gave up after
\* failed polls, the database call failed, and the run ended normally
C34_Witness ==
  \E r \in Runs :
    /\ run[r].variant = "sd_part001" /\ run[r].outcome = "ok"
    /\ Did(r, "DescribeRules") /\ ~DidOk(r, "DescribeRules")
    /\ DidOk(r, "UpdateService")
    /\ Did(r, "drain") /\ ~DidOk(r, "drain")
    /\ Did(r, "DescribeDB") /\ ~DidOk(r, "DescribeDB")

----------------------------------------------------------------------------
(* C35 *)

\* C35 as stated: when a shutdown run and a startup run have interleaved and
\* both are through their control steps, with their scale calls and their swaps
\* applied, then either the desired count is 0 and the placeholder rule is on
\* top, or the desired count is 1 and the backend rule is on top.
C35_InterleavedRunsEndConsistent ==
  (/\ \E r \in Runs : IsShutdown(r)
   /\ \E r \in Runs : IsStartup(r)
   /\ \A r \in Runs :
        /\ run[r].pc \notin SwapPcs \cup {"scale", "db", "dbWrite", "drain"}
        /\ DidOk(r, "UpdateService") /\ SwapApplied(r)) =>
    \/ desired = 0 /\ PlaceholderOnTop(prio)
    \/ desired = 1 /\ BackendOnTop(prio)

\* the shutdown run scaled to 0 before the startup run scaled to 1, and
\* swapped after the startup run had swapped: the service is wanted, and the
\* placeholder rule is on top
C35_Witness ==
  /\ run[1].variant = "sd_lambda" /\ run[2].variant = "su_part003"
  /\ \A r \in Runs :
       /\ run[r].pc \notin SwapPcs \cup {"scale", "db", "dbWrite", "drain"}
       /\ DidOk(r, "UpdateService") /\ SwapApplied(r)
  /\ Awake(initial.prio) /\ initial.desired = 1
  /\ desired = 1 /\ Asleep(prio)

----------------------------------------------------------------------------
(* C36 *)

\* C36 as stated: a run that has left the drain wait as drained ("All ECS tasks
\* have been drained") has seen the service with running count 0 and desired
\* count 0, so when it comes to its next step the service has no running task
\* and desired count 0; an answer without the service entry does not end the
\* wait as drained.
C36_DrainedOnlyOnObservedService ==
  \A r \in Runs :
    (DidOk(r, "drain") /\ At(r, After(run[r].variant, "drain"))) =>
      running = 0 /\ desired = 0

\* the describe call came back without the service entry while a task was
\* running: the wait ended as drained and the database was stopped
C36_Witness ==
  \E r \in Runs :
    /\ DidOk(r, "drain") /\ run[r].attempts = 0
    /\ running = 1 /\ desired = 0
    /\ DidOk(r, "DbWrite") /\ dbState = "stopping"

----------------------------------------------------------------------------
(* C37 *)

\* C37: in the retrying startup handlers a replay whose attempts were all
\* answered otherwise than 2xx has not returned and has counted every one of
\* them; each attempt counts one more and either returns or stays in the loop,
\* which has no cap of its own; and once the backend answers 2xx from some
\* attempt on, the replay returns a 2xx response.
C37_ReplayLiveButUnbounded ==
  /\ [](\A r \in Runs :
          (run[r].hist # <<>> /\ \A i \in DOMAIN run[r].hist : ~IsSuccess(run[r].hist[i])) =>
            /\ At(r, "replay")
            /\ run[r].attempts = Len(run[r].hist))
  /\ [][\A r \in Runs :
          (At(r, "replay") /\ run'[r].hist # run[r].hist) =>
            /\ run'[r].attempts = run[r].attempts + 1
            /\ run'[r].pc = "replay" \/ IsSuccess(run'[r].hist[Len(run'[r].hist)])]_vars
  /\ \A r \in {1} :
       (At(r, "replay") /\ run[r].backend = {HttpOutcome(200)})
         ~> (run[r].pc = "done" /\ IsSuccessStatus(run[r].resp.statusCode))

\* every attempt the model explores was answered otherwise than 2xx, and the
\* run is still in the loop
C37_Witness ==
  \E r \in Runs :
    /\ At(r, "replay") /\ run[r].attempts = MaxAttempts
    /\ Len(run[r].hist) = MaxAttempts
    /\ \A i \in DOMAIN run[r].hist : ~IsSuccess(run[r].hist[i])

----------------------------------------------------------------------------
(* C38 *)

\* C38: in the retrying startup handlers every response that
\* forwardRequestToEcsWithRetry has returned carries a status code in
\* 200..299, and the attempts issued are as many as the index of the first
\* attempt that was answered 2xx: that attempt is the last one, and no attempt
\* before it was answered 2xx.
C38_ReturnedResponseIsFirst2xx ==
  \A r \in Runs :
    (run[r].variant \in RetryVariants /\ run[r].pc = "done" /\ run[r].hist # <<>>) =>
      LET n == Len(run[r].hist)
      IN  /\ run[r].resp.statusCode \in 200..299
          /\ run[r].attempts = n /\ run[r].resp.att = n
          /\ run[r].hist[n].kind = "http" /\ run[r].hist[n].status \in 200..299
          /\ run[r].resp.statusCode = run[r].hist[n].status
          /\ \A i \in 1..(n - 1) :
               ~(run[r].hist[i].kind = "http" /\ run[r].hist[i].status \in 200..299)

\* 404, then a network error, then 200: the 200 is returned on attempt 3
C38_Witness ==
  \E r \in Runs :
    /\ run[r].variant \in RetryVariants /\ run[r].pc = "done"
    /\ run[r].hist = <<HttpOutcome(404), NetworkError, HttpOutcome(200)>>
    /\ run[r].resp.statusCode = 200 /\ run[r].resp.att = 3

----------------------------------------------------------------------------
(* C39 *)

\* C39: in the handlers that swap with two ModifyRule calls, the update of the
\* rule that shall receive the traffic to priority 1 comes first and the
\* update of the other rule to priority 2 is only issued after it was applied;
\* so from a pair that holds priorities 1 and 2, in every state of a single
\* swap (before, between and after the two updates) at least one of the two
\* managed rules holds priority 1.
C39_TargetRuleFirstSoOneRuleOnTop ==
  \A r \in Runs :
    (~AtomicSwap(run[r].variant) /\ Managed \subseteq DOMAIN prio) =>
      /\ prio["rLambda"] = TopPriority \/ prio["rEcs"] = TopPriority
      /\ At(r, "swap2") =>
           /\ prio[FirstTarget(run[r].variant, run[r].lrule, run[r].erule)] = TopPriority
           /\ ~Did(r, "ModifyRule2")
      /\ \A j \in DOMAIN run[r].log :
           run[r].log[j].call = "ModifyRule2" =>
             \E i \in 1..(j - 1) :
               run[r].log[i].call = "ModifyRule1" /\ run[r].log[i].ok

\* between the two updates of a shutdown's swap on the awake listener: the
\* placeholder rule is already at priority 1, the backend rule still is
C39_Witness ==
  \E r \in Runs :
    /\ IsShutdown(r) /\ At(r, "swap2")
    /\ Awake(initial.prio)
    /\ prio["rLambda"] = TopPriority /\ prio["rEcs"] = TopPriority

====
